---- MODULE Spec2Model ----
(***************************************************************************)
(* Collaboration-graph path search of movie_connections.py.                *)
(*                                                                         *)
(* find_shortest_paths is modelled as a state machine: one action for the  *)
(* code before the loop and one action per outcome of a `while queue`      *)
(* iteration.  A graph snapshot is the pair of adjacency mappings that     *)
(* load_graph_data returns: dictionaries that hold a key only for an id    *)
(* that occurs in some row, with duplicate-free tuples as values.          *)
(***************************************************************************)
EXTENDS Integers, Sequences, FiniteSets, TLC

\* ------------------------------------------------------------------ bounds
NumPeople == 3
NumMovies == 2
\* cap on the loop iterations of one call; the longest search under the
\* bounds above takes fewer than half as many
MaxSteps  == 24

\* limit: int = 3, the value main() passes as well
DefaultLimit == 3

\* the ids the general snapshots and queries are drawn from
People == 1..NumPeople
Movies == 1..NumMovies
\* limit is an int: the values below 1 are the ones the spec calls invalid
Limits == (0 - 1)..DefaultLimit

\* shortest_length: Optional[int] = None
None == 0

\* ----------------------------------------------------------- graph snapshot
RECURSIVE SortedTuple(_)
\* tuple(sorted(S, key=...)): names and titles are ordered as the ids are, so
\* every (edge set, name order) pair is a relabelling of a snapshot built here
SortedTuple(S) ==
    IF S = {} THEN <<>>
    ELSE LET x == CHOOSE y \in S : \A z \in S : y <= z
         IN  <<x>> \o SortedTuple(S \ {x})

\* the second add lost for the first person of every movie: the movie is
\* among the person's movies, the person not among the movie's people
Snapshot_oneway(pairs) ==
    [ person_to_movies |->
        [p \in {r[1] : r \in pairs} |-> SortedTuple({r[2] : r \in {q \in pairs : q[1] = p}})],
      movie_to_people |->
        [m \in {r[2] : r \in pairs} |->
            Tail(SortedTuple({r[1] : r \in {q \in pairs : q[2] = m}}))] ]

\* rows (person_id, movie_id) aggregated into the two adjacency mappings
Snapshot(pairs) ==
    [ person_to_movies |->
        [p \in {r[1] : r \in pairs} |-> SortedTuple({r[2] : r \in {q \in pairs : q[1] = p}})],
      movie_to_people |->
        [m \in {r[2] : r \in pairs} |-> SortedTuple({r[1] : r \in {q \in pairs : q[2] = m}})] ]

\* spec.md section 8: people A,B,C,D = 1..4, the isolated person E = 5 and
\* movies M1(A,B), M2(B,C), M3(A,D), M4(D,C)
ScenarioPeople == {1, 2, 3, 4, 5}
ScenarioRows ==
    { <<1, 1>>, <<2, 1>>, <<2, 2>>, <<3, 2>>, <<1, 3>>, <<4, 3>>, <<4, 4>>, <<3, 4>> }

\* ------------------------------------------------------------------- state
VARIABLES
    person_to_movies,   \* Dict[int, Tuple[int, ...]]
    movie_to_people,    \* Dict[int, Tuple[int, ...]]
    start_person,
    target_person,
    limit,
    queue,              \* deque of (node, path)
    visited_depth,      \* {"person": {id: depth}, "movie": {id: depth}}
    solutions,
    shortest_length,
    pc,                 \* "call" | "loop" | "done" | "raised"
    steps,              \* number of loop iterations entered so far
    db,                 \* movies.sqlite: the tables people, movies, movie_people
    rows,               \* what fetchall() returned, in the order it returned it
    person_details,     \* Dict[int, {"name", "roles"}]
    movie_details,      \* Dict[int, {"title", "year", "imdb_id"[, "omdb_poster"]}]
    edge_roles,         \* Dict[(person_id, movie_id), Tuple[str, ...]]
    main_pc,            \* "idle" | "start" | "loaded" | "raised" | "render" | "end"
    other,              \* the locals of a second call on the same snapshot
    tab,                \* how many of the paths main() has rendered
    page                \* what the last render_path put on the page

vars == << person_to_movies, movie_to_people, start_person, target_person, limit,
           queue, visited_depth, solutions, shortest_length, pc, steps,
           db, rows, person_details, movie_details, edge_roles, main_pc,
           other, tab, page >>

\* what a call of find_shortest_paths has no reference to
outside == << db, rows, person_details, movie_details, edge_roles, main_pc,
              other, tab, page >>

graph == << person_to_movies, movie_to_people, start_person, target_person, limit >>

\* ----------------------------------------------------------------- helpers
start_node == <<"person", start_person>>
goal_node  == <<"person", target_person>>

\* mapping[key] in place of mapping.get(key, ()): KeyError on a missing id
Lookup_subscript(mapping, key) ==
    [ raised  |-> key \notin DOMAIN mapping,
      value   |-> IF key \in DOMAIN mapping THEN mapping[key] ELSE <<>>,
      mapping |-> mapping ]

\* mapping.setdefault(key, ()) in place of mapping.get(key, ()): a missing id
\* becomes a key of the mapping
Lookup_setdefault(mapping, key) ==
    [ raised  |-> FALSE,
      value   |-> IF key \in DOMAIN mapping THEN mapping[key] ELSE <<>>,
      mapping |-> IF key \in DOMAIN mapping THEN mapping
                                            ELSE (key :> <<>>) @@ mapping ]

\* dict.get(key, ()): never raises and leaves the mapping as it is; the
\* result carries the mapping as the lookup leaves it
Lookup(mapping, key) ==
    [ raised  |-> FALSE,
      value   |-> IF key \in DOMAIN mapping THEN mapping[key] ELSE <<>>,
      mapping |-> mapping ]

\* the node_type test inverted: each kind reads the other kind's mapping
Neighbours_swapped(node) ==
    IF node[1] = "movie"
    THEN LET got == Lookup(person_to_movies, node[2])
         IN  [ raised |-> got.raised,
               value  |-> [i \in 1..Len(got.value) |-> <<"movie", got.value[i]>>],
               person_to_movies |-> got.mapping,
               movie_to_people  |-> movie_to_people ]
    ELSE LET got == Lookup(movie_to_people, node[2])
         IN  [ raised |-> got.raised,
               value  |-> [i \in 1..Len(got.value) |-> <<"person", got.value[i]>>],
               person_to_movies |-> person_to_movies,
               movie_to_people  |-> got.mapping ]

\* the generator expressions of lines 209-216
Neighbours(node) ==
    IF node[1] = "person"
    THEN LET got == Lookup(person_to_movies, node[2])
         IN  [ raised |-> got.raised,
               value  |-> [i \in 1..Len(got.value) |-> <<"movie", got.value[i]>>],
               person_to_movies |-> got.mapping,
               movie_to_people  |-> movie_to_people ]
    ELSE LET got == Lookup(movie_to_people, node[2])
         IN  [ raised |-> got.raised,
               value  |-> [i \in 1..Len(got.value) |-> <<"person", got.value[i]>>],
               person_to_movies |-> person_to_movies,
               movie_to_people  |-> got.mapping ]

\* neighbour in path
InPath(neighbour, path) == \E i \in 1..Len(path) : path[i] = neighbour

\* a boolean visited flag: previous <= depth in place of previous < depth
DepthSkip_visited(bucket, id, depth) == id \in DOMAIN bucket /\ bucket[id] <= depth

\* previous is not None and previous < depth
DepthSkip(bucket, id, depth) == id \in DOMAIN bucket /\ bucket[id] < depth

\* both `continue` guards lost
Skipped_never(neighbour, path, vd) == FALSE

\* lines 219-225: the two guards that `continue`
Skipped(neighbour, path, vd) ==
    \/ InPath(neighbour, path)
    \/ DepthSkip(vd[neighbour[1]], neighbour[2], Len(path))

\* the length of the extended path recorded: nodes counted, not edges
Record_nodes(vd, neighbour, depth) ==
    [vd EXCEPT ![neighbour[1]] = (neighbour[2] :> depth + 1) @@ @]

\* type_bucket[neighbour[1]] = depth
Record(vd, neighbour, depth) ==
    [vd EXCEPT ![neighbour[1]] = (neighbour[2] :> depth) @@ @]

\* queue.append((neighbour, path + [neighbour]))
Enqueue(q, neighbour, path) ==
    Append(q, [node |-> neighbour, path |-> Append(path, neighbour)])

RECURSIVE Expand(_, _, _, _, _)
\* for neighbour in neighbours: ... from the i-th neighbour on
Expand(neighbours, i, path, vd, q) ==
    IF i > Len(neighbours) THEN [visited_depth |-> vd, queue |-> q]
    ELSE IF Skipped(neighbours[i], path, vd)
         THEN Expand(neighbours, i + 1, path, vd, q)
         ELSE Expand(neighbours, i + 1, path,
                     Record(vd, neighbours[i], Len(path)),
                     Enqueue(q, neighbours[i], path))

\* queue.pop(): the deque used as a stack
popleft_pop(q) == [entry |-> q[Len(q)], rest |-> SubSeq(q, 1, Len(q) - 1)]

\* queue[0]: the entry is read and left on the deque
popleft_peek(q) == [entry |-> Head(q), rest |-> q]

\* node, path = queue.popleft()
popleft(q) == [entry |-> Head(q), rest |-> Tail(q)]

\* len(solutions) > limit
LimitReached_strict(sols) == Len(sols) > limit

\* len(solutions) >= limit
LimitReached(sols) == Len(sols) >= limit

\* the locals of a call that has not run a line yet
NewFrame(start, target, lim) ==
    [ start_person |-> start, target_person |-> target, limit |-> lim,
      queue |-> <<>>, visited_depth |-> [person |-> <<>>, movie |-> <<>>],
      solutions |-> <<>>, shortest_length |-> None, pc |-> "call", steps |-> 0 ]

\* no call in progress
NoCall == [NewFrame(None, None, DefaultLimit) EXCEPT !.pc = "done"]

\* an empty database file
NoCatalogue == [people |-> <<>>, movies |-> <<>>, movie_people |-> {}]

\* nothing rendered
BlankPage == [dot |-> <<>>, posters |-> <<>>, chain |-> <<>>]

\* load_graph_data has not run: no database read, no metadata built
Unloaded ==
    /\ db = NoCatalogue
    /\ rows = <<>>
    /\ person_details = <<>>
    /\ movie_details = <<>>
    /\ edge_roles = <<>>

\* main() is not rendering
NoPage ==
    /\ tab = 0
    /\ page = BlankPage

\* ----------------------------------------------------------------- actions
\* one call of find_shortest_paths on a snapshot, outside any session
Init ==
    /\ \/ \E pairs \in SUBSET (People \X Movies) :
            /\ person_to_movies = Snapshot(pairs).person_to_movies
            /\ movie_to_people = Snapshot(pairs).movie_to_people
            /\ start_person \in People
            /\ target_person \in People
       \/ /\ person_to_movies = Snapshot(ScenarioRows).person_to_movies
          /\ movie_to_people = Snapshot(ScenarioRows).movie_to_people
          /\ start_person \in ScenarioPeople
          /\ target_person \in ScenarioPeople
    /\ limit \in Limits
    /\ queue = <<>>
    /\ visited_depth = [person |-> <<>>, movie |-> <<>>]
    /\ solutions = <<>>
    /\ shortest_length = None
    /\ pc = "call"
    /\ steps = 0
    /\ Unloaded
    /\ main_pc = "idle"
    /\ other = NoCall
    /\ NoPage

\* visited_depth = {"person": {}, "movie": {}}: the start not recorded
InitialDepths_empty(start) == [person |-> <<>>, movie |-> <<>>]

\* visited_depth = {"person": {start_person: 0}, "movie": {}}
InitialDepths(start) == [person |-> (start :> 0), movie |-> <<>>]

\* the early return lost
SamePerson_never == FALSE

\* start_person == target_person
SamePerson == start_person = target_person

\* if start_person == target_person: return []
ReturnSelf ==
    /\ pc = "call"
    /\ SamePerson
    /\ pc' = "done"
    /\ UNCHANGED << outside, graph, queue, visited_depth, solutions, shortest_length, steps >>

\* lines 186-193
Begin ==
    /\ pc = "call"
    /\ ~SamePerson
    /\ queue' = << [node |-> start_node, path |-> <<start_node>>] >>
    /\ visited_depth' = InitialDepths(start_person)
    /\ solutions' = <<>>
    /\ shortest_length' = None
    /\ pc' = "loop"
    /\ UNCHANGED << outside, graph, steps >>

\* while queue: false
Exhausted ==
    /\ pc = "loop"
    /\ queue = <<>>
    /\ pc' = "done"
    /\ UNCHANGED << outside, graph, queue, visited_depth, solutions, shortest_length, steps >>

Iterating ==
    /\ pc = "loop"
    /\ queue # <<>>
    /\ steps < MaxSteps

\* the test of line 197 lost: the loop never breaks on a longer path
PastShortest_never(path) == FALSE

\* shortest_length is not None and len(path) > shortest_length
PastShortest(path) == shortest_length # None /\ Len(path) > shortest_length

\* if shortest_length is not None and len(path) > shortest_length: break
BreakLonger ==
    /\ Iterating
    /\ LET e == popleft(queue) IN
        /\ PastShortest(e.entry.path)
        /\ queue' = e.rest
        /\ pc' = "done"
        /\ steps' = steps + 1
    /\ UNCHANGED << outside, graph, visited_depth, solutions, shortest_length >>

\* if node == goal_node and len(path) > 1: ...
RecordSolution ==
    /\ Iterating
    /\ LET e == popleft(queue) IN
        /\ ~PastShortest(e.entry.path)
        /\ e.entry.node = goal_node /\ Len(e.entry.path) > 1
        /\ shortest_length' = IF shortest_length = None THEN Len(e.entry.path)
                                                        ELSE shortest_length
        /\ solutions' = Append(solutions, e.entry.path)
        /\ queue' = e.rest
        /\ pc' = IF LimitReached(solutions') THEN "done" ELSE "loop"
        /\ steps' = steps + 1
    /\ UNCHANGED << outside, graph, visited_depth >>

\* lines 209-227
ExpandNode ==
    /\ Iterating
    /\ LET e == popleft(queue)
           nb == Neighbours(e.entry.node)
           out == Expand(nb.value, 1, e.entry.path, visited_depth, e.rest)
       IN
        /\ ~PastShortest(e.entry.path)
        /\ ~(e.entry.node = goal_node /\ Len(e.entry.path) > 1)
        /\ IF nb.raised
           THEN /\ pc' = "raised"
                /\ queue' = e.rest
                /\ UNCHANGED visited_depth
           ELSE /\ pc' = "loop"
                /\ queue' = out.queue
                /\ visited_depth' = out.visited_depth
        /\ person_to_movies' = nb.person_to_movies
        /\ movie_to_people' = nb.movie_to_people
        /\ steps' = steps + 1
    /\ UNCHANGED << outside, start_person, target_person, limit, solutions, shortest_length >>

Next == ReturnSelf \/ Begin \/ Exhausted \/ BreakLonger \/ RecordSolution \/ ExpandNode

Spec == Init /\ [][Next]_vars

\* the loop runs to its end: nothing preempts the single thread of a call
FairSpec == Spec /\ WF_vars(Next)

\* ------------------------------------------------ the call as a function
\* The same call with its locals held in one record, the frame, so that a
\* second call can run beside the first and a whole call can be taken in one
\* step by the session.  Lines 183-229, step by step as in the actions above.
\* the generator expressions of lines 209-216 on explicit mappings
NeighboursIn(p2m, m2p, node) ==
    IF node[1] = "person"
    THEN LET got == Lookup(p2m, node[2])
         IN  [ raised |-> got.raised,
               value  |-> [i \in 1..Len(got.value) |-> <<"movie", got.value[i]>>] ]
    ELSE LET got == Lookup(m2p, node[2])
         IN  [ raised |-> got.raised,
               value  |-> [i \in 1..Len(got.value) |-> <<"person", got.value[i]>>] ]

\* one step of the call whose locals are f: the code before the loop, or one
\* iteration of `while queue`, or the return when the queue is empty
FrameStep(f, p2m, m2p) ==
    IF f.pc = "call"
    THEN IF f.start_person = f.target_person
         THEN [f EXCEPT !.pc = "done"]
         ELSE [f EXCEPT
                 !.queue = << [ node |-> <<"person", f.start_person>>,
                                path |-> << <<"person", f.start_person>> >> ] >>,
                 !.visited_depth = InitialDepths(f.start_person),
                 !.solutions = <<>>,
                 !.shortest_length = None,
                 !.pc = "loop"]
    ELSE IF f.pc # "loop" THEN f
    ELSE IF f.queue = <<>> THEN [f EXCEPT !.pc = "done"]
    ELSE LET e == popleft(f.queue)
             path == e.entry.path
         IN
         IF f.shortest_length # None /\ Len(path) > f.shortest_length
         THEN [f EXCEPT !.queue = e.rest, !.pc = "done", !.steps = @ + 1]
         ELSE IF e.entry.node = <<"person", f.target_person>> /\ Len(path) > 1
         THEN LET sols == Append(f.solutions, path) IN
              [f EXCEPT
                 !.shortest_length = IF @ = None THEN Len(path) ELSE @,
                 !.solutions = sols,
                 !.queue = e.rest,
                 !.pc = IF Len(sols) >= f.limit THEN "done" ELSE "loop",
                 !.steps = @ + 1]
         ELSE LET nb == NeighboursIn(p2m, m2p, e.entry.node)
                  out == Expand(nb.value, 1, path, f.visited_depth, e.rest)
              IN  IF nb.raised
                  THEN [f EXCEPT !.queue = e.rest, !.pc = "raised", !.steps = @ + 1]
                  ELSE [f EXCEPT !.queue = out.queue,
                                 !.visited_depth = out.visited_depth,
                                 !.steps = @ + 1]

RECURSIVE RunFrame(_, _, _)
\* the call run to its return (or to the cap on its iterations)
RunFrame(f, p2m, m2p) ==
    IF f.pc \in {"done", "raised"} \/ f.steps >= MaxSteps THEN f
    ELSE RunFrame(FrameStep(f, p2m, m2p), p2m, m2p)

\* the value a call returns
find_shortest_paths(start, target, p2m, m2p, lim) ==
    RunFrame(NewFrame(start, target, lim), p2m, m2p).solutions

\* the locals of the call of the actions above, as a frame
frame ==
    [ start_person |-> start_person, target_person |-> target_person,
      limit |-> limit, queue |-> queue, visited_depth |-> visited_depth,
      solutions |-> solutions, shortest_length |-> shortest_length,
      pc |-> pc, steps |-> steps ]

\* the actions and FrameStep take the same steps
StepsAgree == [][frame' = FrameStep(frame, person_to_movies, movie_to_people)]_vars

\* ------------------------------------------- two calls on the same snapshot
\* one visited_depth for all calls, as a module-level dictionary would be
Locals_shared(own, theirs) == [own EXCEPT !.visited_depth = theirs.visited_depth]

\* lines 186-193 run in every call: the queue, visited_depth and solutions a
\* call works on are the ones it created, whatever another call holds
Locals(own, theirs) == own

\* the limits of the two calls: the first path only, or main()'s limit
PairLimits == {1, DefaultLimit}

\* two calls are made on one snapshot before either has run a line
PairInit ==
    /\ \/ \E pairs \in SUBSET (People \X Movies) :
            /\ person_to_movies = Snapshot(pairs).person_to_movies
            /\ movie_to_people = Snapshot(pairs).movie_to_people
            /\ start_person \in People
            /\ target_person \in People
            /\ \E s \in People, t \in People, lim \in PairLimits :
                   other = NewFrame(s, t, lim)
       \/ /\ person_to_movies = Snapshot(ScenarioRows).person_to_movies
          /\ movie_to_people = Snapshot(ScenarioRows).movie_to_people
          /\ start_person \in ScenarioPeople
          /\ target_person \in ScenarioPeople
          /\ \E s \in ScenarioPeople, t \in ScenarioPeople, lim \in PairLimits :
                 other = NewFrame(s, t, lim)
    /\ limit \in PairLimits
    /\ queue = <<>>
    /\ visited_depth = [person |-> <<>>, movie |-> <<>>]
    /\ solutions = <<>>
    /\ shortest_length = None
    /\ pc = "call"
    /\ steps = 0
    /\ Unloaded
    /\ main_pc = "idle"
    /\ NoPage

\* the second call takes its next step: the code before the loop, one
\* iteration of the loop, or the return
OtherStep ==
    /\ other.pc \in {"call", "loop"}
    /\ other.steps < MaxSteps
    /\ other' = FrameStep(Locals(other, frame), person_to_movies, movie_to_people)
    /\ UNCHANGED << graph, queue, visited_depth, solutions, shortest_length, pc, steps,
                    db, rows, person_details, movie_details, edge_roles, main_pc,
                    tab, page >>

\* the steps of the two calls interleave in any order
PairNext == Next \/ OtherStep

PairSpec == PairInit /\ [][PairNext]_vars

\* ------------------------------------------------------- the database file
\* Most rows one movie_people table holds
MaxRows == 4

\* SQL NULL / Python None in a text column
Null == "None"

\* two ids that fall into the same slot of a small CPython set (9 % 8 = 1)
PersonIds == {1, 9}
MovieIds == {1, 9}

\* WHERE mp.role IN ('Actor', 'Director')
RoleLabels == {"Actor", "Director"}

\* the strings the build compares, in Python's str order
Lexicon == << "", "Actor", "Ann", "Bob", "Director", "Heat", "Solaris",
              "Unknown person", "Untitled", "Writer" >>

\* position of a string in Python's order
Rank(text) == CHOOSE i \in 1..Len(Lexicon) : Lexicon[i] = text

\* movie_people rows with both ids and a role that the query selects
LabelledRows == [movie_id : MovieIds, person_id : PersonIds, role : RoleLabels]

\* movie_people rows that lack an id, or carry no role or another role
OddRows ==
    { [movie_id |-> None, person_id |-> 1,    role |-> "Actor"],
      [movie_id |-> 1,    person_id |-> None, role |-> "Director"],
      [movie_id |-> 9,    person_id |-> 9,    role |-> Null],
      [movie_id |-> 1,    person_id |-> 1,    role |-> "Writer"] }

\* the database files load_graph_data is run on: the tables people(id, name),
\* movies(id, title, year, imdb_id) and movie_people(movie_id, person_id,
\* role) with its PRIMARY KEY (movie_id, person_id, role)
Catalogues ==
    { [ people |-> (1 :> "Ann") @@ (9 :> name),
        movies |-> (1 :> [title |-> "Heat", year |-> 1995, imdb_id |-> "tt0113277"])
                   @@ (9 :> [title |-> title, year |-> None, imdb_id |-> Null]),
        movie_people |-> table ] :
      name \in {"Ann", "Bob", Null},
      title \in {"Heat", "Solaris"},
      table \in {t \in SUBSET (LabelledRows \cup OddRows) : Cardinality(t) <= MaxRows} }

\* ------------------------------------------------------- load_graph_data
\* the WHERE clause dropped
RoleSelected_any(role) == TRUE

\* WHERE mp.role IN ('Actor', 'Director'): NULL IN (...) is not true
RoleSelected(role) == role \in RoleLabels

\* the result row of one movie_people row whose joins found a partner
ResultRow(cat, mp) ==
    [ movie_id      |-> mp.movie_id,
      movie_title   |-> IF mp.movie_id \in DOMAIN cat.movies
                        THEN cat.movies[mp.movie_id].title ELSE Null,
      movie_year    |-> IF mp.movie_id \in DOMAIN cat.movies
                        THEN cat.movies[mp.movie_id].year ELSE None,
      movie_imdb_id |-> IF mp.movie_id \in DOMAIN cat.movies
                        THEN cat.movies[mp.movie_id].imdb_id ELSE Null,
      person_id     |-> mp.person_id,
      person_name   |-> IF mp.person_id \in DOMAIN cat.people
                        THEN cat.people[mp.person_id] ELSE Null,
      role          |-> mp.role ]

\* LEFT JOIN in place of JOIN: a row without a partner is kept, with NULLs
Query_leftjoin(cat) ==
    { ResultRow(cat, mp) : mp \in {r \in cat.movie_people : RoleSelected(r.role)} }

\* the SELECT of lines 83-99: the inner joins keep a movie_people row only if
\* its person_id and its movie_id are ids of a people and of a movies row
Query(cat) ==
    { ResultRow(cat, mp) :
        mp \in {r \in cat.movie_people : /\ r.person_id \in DOMAIN cat.people
                                         /\ r.movie_id \in DOMAIN cat.movies
                                         /\ RoleSelected(r.role)} }

\* fetchall(): the query has no ORDER BY, so the rows come in any order
Orderings(S) ==
    {seq \in [1..Cardinality(S) -> S] : \A i, j \in 1..Cardinality(S) : i # j => seq[i] # seq[j]}

\* --- a CPython set of small ints: a table of 8 slots, the hash of an int
\* --- is the int, and a set of fewer than 5 elements is never resized
SetSlots == 8

\* set()
EmptySet == [i \in 0..(SetSlots - 1) |-> None]

RECURSIVE FreeSlot(_, _, _)
\* the probe sequence of set_add_entry: i = (i * 5 + 1 + perturb) & mask
\* with perturb >>= 5 before each use
FreeSlot(table, i, perturb) ==
    IF table[i] = None THEN i
    ELSE FreeSlot(table, (i * 5 + 1 + (perturb \div 32)) % SetSlots, perturb \div 32)

\* s.add(key)
SetAdd(table, key) ==
    IF \E i \in DOMAIN table : table[i] = key THEN table
    ELSE [table EXCEPT ![FreeSlot(table, key % SetSlots, key)] = key]

RECURSIVE SlotsFrom(_, _)
\* iteration over a set: the used slots in table order
SlotsFrom(table, i) ==
    IF i >= SetSlots THEN <<>>
    ELSE (IF table[i] = None THEN <<>> ELSE << table[i] >>) \o SlotsFrom(table, i + 1)

\* list(s)
SetItems(table) == SlotsFrom(table, 0)

\* --- sorted(iterable, key=...): stable, equal keys keep the iteration order
InsertByKey(sorted, x, key) ==
    LET n == Cardinality({i \in 1..Len(sorted) : key[sorted[i]] <= key[x]})
    IN  SubSeq(sorted, 1, n) \o << x >> \o SubSeq(sorted, n + 1, Len(sorted))

RECURSIVE StableSorted(_, _)
StableSorted(items, key) ==
    IF items = <<>> THEN <<>>
    ELSE InsertByKey(StableSorted(SubSeq(items, 1, Len(items) - 1), key),
                     items[Len(items)], key)

\* tuple(sorted(role for role in role_set if role))
SortedRoles(role_set) ==
    LET kept == {role \in role_set : role # ""}
    IN  StableSorted(CHOOSE seq \in Orderings(kept) : TRUE, [role \in kept |-> Rank(role)])

\* value or default
OrDefault(value, default) == IF value \in {Null, ""} THEN default ELSE value

\* the accumulators of lines 102-106
EmptyBuild ==
    [ raised |-> FALSE, person_details |-> <<>>, movie_details |-> <<>>,
      person_to_movies |-> <<>>, movie_to_people |-> <<>>, edge_roles |-> <<>> ]

\* mapping[key].add(item) on a defaultdict(set)
AddTo(mapping, key, item) ==
    IF key \in DOMAIN mapping THEN [mapping EXCEPT ![key] = SetAdd(@, item)]
    ELSE (key :> SetAdd(EmptySet, item)) @@ mapping

\* the role recorded only inside `if person_id not in person_details`
AddPersonRole_first(details, seen, person_id, role) ==
    IF person_id \in DOMAIN seen THEN details
    ELSE [details EXCEPT ![person_id].roles = @ \cup {role}]

\* person_details[person_id]["roles"].add(role)
AddPersonRole(details, seen, person_id, role) ==
    [details EXCEPT ![person_id].roles = @ \cup {role}]

\* the second add lost
AddEdge_oneway(acc, person_id, movie_id) ==
    [acc EXCEPT !.person_to_movies = AddTo(@, person_id, movie_id)]

\* lines 128-129
AddEdge(acc, person_id, movie_id) ==
    [acc EXCEPT !.person_to_movies = AddTo(@, person_id, movie_id),
                !.movie_to_people = AddTo(@, movie_id, person_id)]

\* one iteration of `for row in rows`, lines 109-131; int(None) raises
AddRow(acc, row) ==
    IF row.person_id = None \/ row.movie_id = None THEN [acc EXCEPT !.raised = TRUE]
    ELSE
    LET person_id == row.person_id
        movie_id == row.movie_id
        role == IF row.role = Null THEN "" ELSE row.role
        people == IF person_id \in DOMAIN acc.person_details THEN acc.person_details
                  ELSE (person_id :> [ name |-> OrDefault(row.person_name, "Unknown person"),
                                       roles |-> {} ]) @@ acc.person_details
        movies == IF movie_id \in DOMAIN acc.movie_details THEN acc.movie_details
                  ELSE (movie_id :> [ title |-> OrDefault(row.movie_title, "Untitled"),
                                      year |-> IF row.movie_year # None
                                               THEN ToString(row.movie_year) ELSE "",
                                      imdb_id |-> row.movie_imdb_id ]) @@ acc.movie_details
        linked == AddEdge([acc EXCEPT
                             !.person_details =
                                 AddPersonRole(people, acc.person_details, person_id, role),
                             !.movie_details = movies],
                          person_id, movie_id)
    IN  IF role = "" THEN linked
        ELSE [linked EXCEPT !.edge_roles =
                 IF << person_id, movie_id >> \in DOMAIN @
                 THEN [@ EXCEPT ![<< person_id, movie_id >>] = @ \cup {role}]
                 ELSE (<< person_id, movie_id >> :> {role}) @@ @]

RECURSIVE Aggregated(_, _, _)
\* the loop of line 108 from the i-th row on; an exception ends it
Aggregated(fetched, i, acc) ==
    IF i > Len(fetched) \/ acc.raised THEN acc
    ELSE Aggregated(fetched, i + 1, AddRow(acc, fetched[i]))

\* lines 102-154: what load_graph_data returns for the fetched rows
Built(fetched) ==
    LET acc == Aggregated(fetched, 1, EmptyBuild)
        names == [p \in DOMAIN acc.person_details |-> Rank(acc.person_details[p].name)]
        titles == [m \in DOMAIN acc.movie_details |-> Rank(acc.movie_details[m].title)]
    IN  [ raised |-> acc.raised,
          person_details |->
              [p \in DOMAIN acc.person_details |->
                  [acc.person_details[p] EXCEPT !.roles = SortedRoles(@)]],
          movie_details |-> acc.movie_details,
          person_to_movies |->
              [p \in DOMAIN acc.person_to_movies |->
                  StableSorted(SetItems(acc.person_to_movies[p]), titles)],
          movie_to_people |->
              [m \in DOMAIN acc.movie_to_people |->
                  StableSorted(SetItems(acc.movie_to_people[m]), names)],
          edge_roles |->
              [e \in DOMAIN acc.edge_roles |-> SortedRoles(acc.edge_roles[e])] ]

\* main() has called nothing yet: no snapshot, no call, an empty page
NotStarted ==
    /\ person_to_movies = <<>>
    /\ movie_to_people = <<>>
    /\ start_person = NoCall.start_person
    /\ target_person = NoCall.target_person
    /\ limit = NoCall.limit
    /\ queue = NoCall.queue
    /\ visited_depth = NoCall.visited_depth
    /\ solutions = NoCall.solutions
    /\ shortest_length = NoCall.shortest_length
    /\ pc = NoCall.pc
    /\ steps = NoCall.steps
    /\ rows = <<>>
    /\ person_details = <<>>
    /\ movie_details = <<>>
    /\ edge_roles = <<>>
    /\ main_pc = "start"
    /\ other = NoCall
    /\ NoPage

\* the script starts on some database file
BuildInit ==
    /\ db \in Catalogues
    /\ NotStarted

\* lines 376-382: main() calls load_graph_data and binds what it returns
Load ==
    /\ main_pc = "start"
    /\ \E fetched \in Orderings(Query(db)) :
         LET built == Built(fetched) IN
         /\ rows' = fetched
         /\ IF built.raised
            THEN /\ main_pc' = "raised"
                 /\ UNCHANGED << person_details, movie_details, person_to_movies,
                                 movie_to_people, edge_roles >>
            ELSE /\ main_pc' = "loaded"
                 /\ person_details' = built.person_details
                 /\ movie_details' = built.movie_details
                 /\ person_to_movies' = built.person_to_movies
                 /\ movie_to_people' = built.movie_to_people
                 /\ edge_roles' = built.edge_roles
    /\ UNCHANGED << db, start_person, target_person, limit, queue, visited_depth,
                    solutions, shortest_length, pc, steps, other, tab, page >>

BuildNext == Load

BuildSpec == BuildInit /\ [][BuildNext]_vars

\* ------------------------------------------------------ the query session
\* the IMDb ids of the catalogue that OMDb can be asked about
ImdbIds == {"tt0113277"}

\* a poster address as OMDb returns it
PosterUrl == "https://m.media-amazon.com/poster.jpg"

\* what a request for each IMDb id ends in: a poster address, or None for a
\* failed request, a "False" response or a poster of "N/A" (lines 51-69)
OmdbAnswers == [ImdbIds -> {Null, PosterUrl}]

\* the tab labels of main()
Labels == << "Shortest path", "Alternative path 2", "Alternative path 3" >>

\* mapping.get(key, default), on a dictionary or on one of its entries
GetOr(mapping, key, default) == IF key \in DOMAIN mapping THEN mapping[key] ELSE default

\* lines 44-69, for the answer omdb of the service
fetch_omdb_poster(imdb_id, omdb) ==
    IF imdb_id \in {Null, ""} \/ imdb_id \notin DOMAIN omdb THEN Null ELSE omdb[imdb_id]

\* f"{title} ({year})" if year else title, as the parts of the string
format_movie(movie_id, details) ==
    LET info == GetOr(details, movie_id, [title |-> "Untitled", year |-> ""])
        title == GetOr(info, "title", "Untitled")
        year == GetOr(info, "year", Null)
    IN  IF year \in {Null, ""} THEN << title >> ELSE << title, " (", year, ")" >>

\* range(0, len(path) - 2): a step from every node, movies included
StepStarts_dense(path) == [k \in 1..(Len(path) - 2) |-> k - 1]

\* range(0, len(path) - 2, 2): the 0-based indexes the steps start at
StepStarts(path) == [k \in 1..((Len(path) - 1) \div 2) |-> 2 * (k - 1)]

\* edge_roles.get((person_id, movie_id), ()): no label without an entry
RolesOf_nodefault(roles, person_id, movie_id) ==
    GetOr(roles, << person_id, movie_id >>, <<>>)

\* edge_roles.get((person_id, movie_id), ("Contributor",))
RolesOf(roles, person_id, movie_id) ==
    GetOr(roles, << person_id, movie_id >>, << "Contributor" >>)

\* lines 291-316: one step per person-movie-person stretch of the path; the
\* joined role labels are kept as the tuple that ', '.join is given
describe_connection(path, people, movies, roles) ==
    [k \in 1..Len(StepStarts(path)) |->
        LET index == StepStarts(path)[k]
            person_id == path[index + 1][2]
            movie_id == path[index + 2][2]
            partner_id == path[index + 3][2]
        IN  [ person_name  |-> GetOr(GetOr(people, person_id, <<>>), "name", "Unknown"),
              left_roles   |-> RolesOf(roles, person_id, movie_id),
              movie_label  |-> format_movie(movie_id, movies),
              partner_name |-> GetOr(GetOr(people, partner_id, <<>>), "name", "Unknown"),
              right_roles  |-> RolesOf(roles, partner_id, movie_id) ]]

\* f"{prefix}{node[1]}"
node_name(node) == << IF node[1] = "person" THEN "p" ELSE "m", node[2] >>

\* zip(path, path[1:] + path[:1]): the path closed into a ring
PathEdges_closed(path) ==
    [i \in 1..Len(path) |->
        << node_name(path[i]), node_name(path[IF i = Len(path) THEN 1 ELSE i + 1]) >>]

\* for first, second in zip(path, path[1:]): f"  {first} -- {second};"
PathEdges(path) ==
    [i \in 1..(Len(path) - 1) |-> << node_name(path[i]), node_name(path[i + 1]) >>]

\* lines 232-279: a node statement per node of the path, an edge statement
\* per pair of successive nodes
build_graphviz(path, people, movies) ==
    [ nodes |->
        [i \in 1..Len(path) |->
            IF path[i][1] = "person"
            THEN LET details == GetOr(people, path[i][2], [name |-> "Unknown", roles |-> <<>>])
                     roles == GetOr(details, "roles", <<>>)
                 IN  [ name |-> node_name(path[i]), shape |-> "ellipse",
                       fillcolor |-> IF i = 1 THEN "#d1e7dd"
                                     ELSE IF i = Len(path) THEN "#cfe2ff" ELSE "#f8f9fa",
                       label |-> IF roles = <<>> THEN << GetOr(details, "name", "Unknown") >>
                                 ELSE << GetOr(details, "name", "Unknown"), roles >> ]
            ELSE LET details == GetOr(movies, path[i][2], [title |-> "Untitled", year |-> ""])
                     year == GetOr(details, "year", Null)
                 IN  [ name |-> node_name(path[i]), shape |-> "box",
                       fillcolor |-> "#fde2b2",
                       label |-> IF year \in {Null, ""}
                                 THEN << GetOr(details, "title", "Untitled") >>
                                 ELSE << GetOr(details, "title", "Untitled"), year >> ]],
      edges |-> PathEdges(path) ]

\* details = {"omdb_poster": poster_url}: the entry replaced, not extended
StorePoster_replace(details, poster_url) == [omdb_poster |-> poster_url]

\* details["omdb_poster"] = poster_url
StorePoster(details, poster_url) ==
    [field \in DOMAIN details \cup {"omdb_poster"} |->
        IF field = "omdb_poster" THEN poster_url ELSE details[field]]

RECURSIVE ShowPosters(_, _, _, _, _)
\* the loop of lines 339-351 from the i-th movie of the path on: the columns
\* shown so far and movie_details as the loop leaves it
ShowPosters(movie_nodes, i, movies, omdb, columns) ==
    IF i > Len(movie_nodes) THEN [columns |-> columns, movie_details |-> movies]
    ELSE
    LET movie_id == movie_nodes[i]
        known == movie_id \in DOMAIN movies
        details == GetOr(movies, movie_id, <<>>)
        cached == GetOr(details, "omdb_poster", Null)
        poster_url == IF cached = Null
                      THEN fetch_omdb_poster(GetOr(details, "imdb_id", Null), omdb)
                      ELSE cached
        after == IF cached = Null /\ known
                 THEN [movies EXCEPT ![movie_id] = StorePoster(details, poster_url)]
                 ELSE movies
    IN  ShowPosters(movie_nodes, i + 1, after, omdb,
                    Append(columns, [ caption |-> format_movie(movie_id, after),
                                      image |-> IF poster_url = Null
                                                THEN "Poster unavailable."
                                                ELSE poster_url ]))

\* the ids of the movie nodes of a path, in path order
MovieNodes(path) == [k \in 1..((Len(path) - 1) \div 2) |-> path[2 * k][2]]

\* lines 319-355: what goes on the page and movie_details as the call leaves it
render_path(title, path, people, movies, roles, omdb) ==
    LET shown == ShowPosters(MovieNodes(path), 1, movies, omdb, <<>>) IN
    [ page |-> [ title |-> title,
                 degrees |-> (Len(path) - 1) \div 2,
                 dot |-> build_graphviz(path, people, movies),
                 posters |-> shown.columns,
                 chain |-> describe_connection(path, people, shown.movie_details, roles) ],
      movie_details |-> shown.movie_details ]

\* the database files of the sessions: every association row has both ids
\* and a selected role, the two people and the two movies differ in name
SessionCatalogues ==
    {cat \in Catalogues : /\ cat.people[9] = "Bob"
                          /\ cat.movies[9].title = "Solaris"
                          /\ cat.movie_people \subseteq LabelledRows}

\* the script starts on some database file
SessionInit ==
    /\ db \in SessionCatalogues
    /\ NotStarted

\* if not person_details: st.error(...); return
NoPeople ==
    /\ main_pc = "loaded"
    /\ DOMAIN person_details = {}
    /\ main_pc' = "end"
    /\ UNCHANGED << graph, queue, visited_depth, solutions, shortest_length, pc, steps,
                    db, rows, person_details, movie_details, edge_roles, other, tab, page >>

\* if person_a == person_b: st.info(...); return
SameSelected ==
    /\ main_pc = "loaded"
    /\ \E person_a \in DOMAIN person_details :
         /\ start_person' = person_a
         /\ target_person' = person_a
    /\ main_pc' = "end"
    /\ UNCHANGED << person_to_movies, movie_to_people, limit, queue, visited_depth,
                    solutions, shortest_length, pc, steps,
                    db, rows, person_details, movie_details, edge_roles, other, tab, page >>

\* lines 412-416: the two selected people differ and main() calls
\* find_shortest_paths(person_a, person_b, ..., limit=3)
Find ==
    /\ main_pc = "loaded"
    /\ \E person_a \in DOMAIN person_details, person_b \in DOMAIN person_details :
         /\ person_a # person_b
         /\ LET returned == RunFrame(NewFrame(person_a, person_b, DefaultLimit),
                                     person_to_movies, movie_to_people)
            IN  /\ start_person' = returned.start_person
                /\ target_person' = returned.target_person
                /\ limit' = returned.limit
                /\ queue' = returned.queue
                /\ visited_depth' = returned.visited_depth
                /\ solutions' = returned.solutions
                /\ shortest_length' = returned.shortest_length
                /\ pc' = returned.pc
                /\ steps' = returned.steps
                /\ main_pc' = IF returned.solutions = <<>> THEN "end" ELSE "render"
    /\ UNCHANGED << person_to_movies, movie_to_people,
                    db, rows, person_details, movie_details, edge_roles, other, tab, page >>

\* lines 420-423: the next tab is rendered
RenderPath ==
    /\ main_pc = "render"
    /\ tab < Len(solutions)
    /\ \E omdb \in OmdbAnswers :
         LET out == render_path(Labels[tab + 1], solutions[tab + 1],
                                person_details, movie_details, edge_roles, omdb)
         IN  /\ page' = out.page
             /\ movie_details' = out.movie_details
    /\ tab' = tab + 1
    /\ main_pc' = IF tab + 1 = Len(solutions) THEN "end" ELSE "render"
    /\ UNCHANGED << graph, queue, visited_depth, solutions, shortest_length, pc, steps,
                    db, rows, person_details, edge_roles, other >>

SessionNext == Load \/ NoPeople \/ SameSelected \/ Find \/ RenderPath

SessionSpec == SessionInit /\ [][SessionNext]_vars

\* ------------------------------------------------- reference definitions
\* what the claims measure the search against; none of it is used by the actions
Range(t) == {t[i] : i \in 1..Len(t)}

\* the nodes one edge away from n in the supplied mappings
Adjacent(n) ==
    IF n[1] = "person"
    THEN IF n[2] \in DOMAIN person_to_movies
         THEN {<<"movie", m>> : m \in Range(person_to_movies[n[2]])} ELSE {}
    ELSE IF n[2] \in DOMAIN movie_to_people
         THEN {<<"person", p>> : p \in Range(movie_to_people[n[2]])} ELSE {}

\* a pair of nodes joined in person_to_movies or in movie_to_people
Linked(a, b) ==
    \/ /\ a[1] = "person" /\ b[1] = "movie"
       /\ \/ a[2] \in DOMAIN person_to_movies /\ b[2] \in Range(person_to_movies[a[2]])
          \/ b[2] \in DOMAIN movie_to_people /\ a[2] \in Range(movie_to_people[b[2]])
    \/ /\ a[1] = "movie" /\ b[1] = "person"
       /\ \/ b[2] \in DOMAIN person_to_movies /\ a[2] \in Range(person_to_movies[b[2]])
          \/ a[2] \in DOMAIN movie_to_people /\ b[2] \in Range(movie_to_people[a[2]])

Unreachable == 0 - 1

RECURSIVE DistanceFrom(_, _, _)
\* layer-by-layer breadth-first distance (in edges) to the goal node
DistanceFrom(frontier, seen, d) ==
    IF goal_node \in frontier THEN d
    ELSE LET next == (UNION {Adjacent(n) : n \in frontier}) \ seen
         IN  IF next = {} THEN Unreachable
             ELSE DistanceFrom(next, seen \cup next, d + 1)

RefDistance == DistanceFrom({start_node}, {start_node}, 0)

RECURSIVE Walks(_)
\* every walk of k nodes that leaves the start node
Walks(k) ==
    IF k = 1 THEN {<<start_node>>}
    ELSE UNION {{Append(w, n) : n \in Adjacent(w[Len(w)])} : w \in Walks(k - 1)}

\* every path from start to target of the minimum length
ShortestPaths ==
    IF start_person = target_person \/ RefDistance = Unreachable THEN {}
    ELSE {w \in Walks(RefDistance + 1) : w[Len(w)] = goal_node}

Simple(path) == \A i, j \in 1..Len(path) : i # j => path[i] # path[j]

ScenarioGraph ==
    /\ person_to_movies = Snapshot(ScenarioRows).person_to_movies
    /\ movie_to_people = Snapshot(ScenarioRows).movie_to_people

\* the cap on loop iterations in Iterating never stops a search
StepsBelowCap == steps < MaxSteps

\* ------------------------------------------- the renderers on their inputs
\* render_path, build_graphviz and describe_connection take any path and any
\* dictionaries: the paths are the ones find_shortest_paths returns for
\* limit=3, the metadata names every node of the snapshot, and edge_roles
\* holds the label tuple of an edge or, for one edge at most, no entry.
PersonName(p) == "Person " \o ToString(p)
MovieTitle(m) == "Movie " \o ToString(m)

\* the labels of the rows of an edge
EdgeLabels(p, m) ==
    IF (p + m) % 3 = 0 THEN << "Actor", "Director" >>
    ELSE IF (p + m) % 3 = 1 THEN << "Actor" >> ELSE << "Director" >>

\* the (person, movie) pairs of a snapshot
EdgesOf(snap) ==
    UNION {{<< p, snap.person_to_movies[p][i] >> : i \in 1..Len(snap.person_to_movies[p])} :
              p \in DOMAIN snap.person_to_movies}

\* the three dictionaries for a snapshot whose edges in `unlabelled` came
\* from rows with an empty role
Metadata(snap, unlabelled) ==
    [ person_details |->
        [p \in DOMAIN snap.person_to_movies |->
            [ name |-> PersonName(p),
              roles |-> SortedRoles(UNION {Range(EdgeLabels(e[1], e[2])) :
                            e \in {d \in EdgesOf(snap) \ unlabelled : d[1] = p}}) ]],
      movie_details |->
        [m \in DOMAIN snap.movie_to_people |->
            [ title |-> MovieTitle(m),
              year |-> IF m % 2 = 1 THEN "1995" ELSE "",
              imdb_id |-> IF m = 1 THEN "tt0113277" ELSE Null ]],
      edge_roles |->
        [e \in EdgesOf(snap) \ unlabelled |-> EdgeLabels(e[1], e[2])] ]

\* main() has a non-empty list of paths in hand and is about to render it
RenderInit ==
    /\ \E snap \in {Snapshot(pairs) : pairs \in SUBSET (People \X Movies)}
                       \cup {Snapshot(ScenarioRows)} :
         /\ person_to_movies = snap.person_to_movies
         /\ movie_to_people = snap.movie_to_people
         /\ \E unlabelled \in {{}} \cup {{e} : e \in EdgesOf(snap)} :
              /\ person_details = Metadata(snap, unlabelled).person_details
              /\ movie_details = Metadata(snap, unlabelled).movie_details
              /\ edge_roles = Metadata(snap, unlabelled).edge_roles
         /\ \E person_a \in DOMAIN snap.person_to_movies,
               person_b \in DOMAIN snap.person_to_movies :
              LET returned == RunFrame(NewFrame(person_a, person_b, DefaultLimit),
                                       snap.person_to_movies, snap.movie_to_people)
              IN  /\ returned.solutions # <<>>
                  /\ start_person = returned.start_person
                  /\ target_person = returned.target_person
                  /\ limit = returned.limit
                  /\ queue = returned.queue
                  /\ visited_depth = returned.visited_depth
                  /\ solutions = returned.solutions
                  /\ shortest_length = returned.shortest_length
                  /\ pc = returned.pc
                  /\ steps = returned.steps
    /\ db = NoCatalogue
    /\ rows = <<>>
    /\ main_pc = "render"
    /\ other = NoCall
    /\ NoPage

RenderNext == RenderPath

RenderSpec == RenderInit /\ [][RenderNext]_vars

\* ------------------------------------------------------------------ claims

\* C1: every returned path has the minimum possible length between start and
\* target, as an independent breadth-first distance computation gives it.
C1_ReturnedPathsAreShortest ==
    \A i \in 1..Len(solutions) : Len(solutions[i]) = RefDistance + 1

\* a returned search whose paths have five nodes, where the reference finds
\* two or more shortest paths
C1_Witness ==
    /\ pc = "done" /\ solutions # <<>> /\ Len(solutions[1]) = 5
    /\ Cardinality(ShortestPaths) >= 2

\* C2: every returned path is a walk of the supplied graph from the start
\* person to the target person: kinds alternate person/movie/.../person, each
\* consecutive pair is linked in a mapping, the length is odd and at least 3.
C2_ReturnedPathsAreWalks ==
    \A i \in 1..Len(solutions) :
        LET path == solutions[i] IN
        /\ Len(path) >= 3 /\ Len(path) % 2 = 1
        /\ path[1] = <<"person", start_person>>
        /\ path[Len(path)] = <<"person", target_person>>
        /\ \A k \in 1..Len(path) :
              path[k][1] = IF k % 2 = 1 THEN "person" ELSE "movie"
        /\ \A k \in 1..(Len(path) - 1) : Linked(path[k], path[k + 1])

C2_Witness ==
    /\ pc = "done" /\ ~ScenarioGraph
    /\ Len(solutions) = 1 /\ Len(solutions[1]) = 5

\* C3: no returned path and no path on the queue holds a node twice.
C3_PathsAreSimple ==
    /\ \A i \in 1..Len(solutions) : Simple(solutions[i])
    /\ \A i \in 1..Len(queue) : Simple(queue[i].path)

\* a path of four nodes is queued: the expansion of its three-node parent met
\* the movie the parent came through, a node of the current path, and skipped it
C3_Witness ==
    /\ pc = "loop" /\ steps >= 3
    /\ \E i \in 1..Len(queue) : Len(queue[i].path) >= 4

\* C4: all paths of one call have the same length, the recorded shortest_length.
C4_SolutionsShareLength ==
    \A i \in 1..Len(solutions) : Len(solutions[i]) = shortest_length

\* two solutions recorded under a larger limit, and the search ran on after them
C4_Witness ==
    /\ pc = "done" /\ Len(solutions) = 2 /\ limit > 2
    /\ steps > 5

\* C5: when two or more shortest paths exist and limit >= 2 the call returns
\* at least two distinct paths; on the scenario graph A to C with limit 2
\* returns A-M1-B-M2-C and A-M3-D-M4-C.
C5_TwoShortestPathsReturned ==
    pc = "done" =>
        /\ (limit >= 2 /\ Cardinality(ShortestPaths) >= 2)
              => Cardinality(Range(solutions)) >= 2
        /\ (ScenarioGraph /\ start_person = 1 /\ target_person = 3 /\ limit = 2)
              => Range(solutions) =
                   { << <<"person", 1>>, <<"movie", 1>>, <<"person", 2>>,
                        <<"movie", 2>>, <<"person", 3>> >>,
                     << <<"person", 1>>, <<"movie", 3>>, <<"person", 4>>,
                        <<"movie", 4>>, <<"person", 3>> >> }

C5_Witness ==
    /\ pc = "done" /\ ScenarioGraph
    /\ start_person = 1 /\ target_person = 3 /\ limit = 2
    /\ Len(solutions) = 2 /\ solutions[1] # solutions[2]

\* C6: with start equal to target the call returns an empty sequence and
\* performs no search step, whatever the graph and the limit.
C6_SelfQueryReturnsEmpty ==
    start_person = target_person =>
        /\ pc \in {"call", "done"}
        /\ solutions = <<>> /\ queue = <<>> /\ steps = 0

\* a returned self query of a person who has credits
C6_Witness ==
    /\ pc = "done" /\ start_person = target_person
    /\ start_person \in DOMAIN person_to_movies

\* C7: when no path connects start and target (different components, an id
\* absent from the mappings, an isolated person) nothing is raised and no
\* path is recorded, so the call returns an empty sequence.
C7_NoPathReturnsEmpty ==
    (start_person # target_person /\ RefDistance = Unreachable) =>
        /\ pc # "raised"
        /\ solutions = <<>>

\* returned queries of two credited people in different components
C7_Witness ==
    /\ pc = "done" /\ start_person # target_person
    /\ start_person \in DOMAIN person_to_movies
    /\ target_person \in DOMAIN person_to_movies
    /\ RefDistance = Unreachable /\ steps >= 2

\* C8: every call terminates, for every graph, start, target and limit.
C8_Terminates == <>(pc = "done")

\* a search that ran six or more loop iterations and returned empty
C8_Witness == pc = "done" /\ steps >= 6 /\ solutions = <<>>

\* C9: for limit >= 1 at most limit paths are recorded, and the search has
\* stopped as soon as the limit-th one is recorded.
C9_AtMostLimitPaths ==
    limit >= 1 =>
        /\ Len(solutions) <= limit
        /\ Len(solutions) = limit => pc = "done"

\* stopped by the limit with a further shortest path left unreturned
C9_Witness ==
    /\ pc = "done" /\ limit >= 1 /\ Len(solutions) = limit
    /\ Cardinality(ShortestPaths) > limit /\ queue # <<>>

\* C10: a call with limit < 1 is rejected before any search step runs and
\* returns no path.
C10_InvalidLimitRejected ==
    limit < 1 => (steps = 0 /\ solutions = <<>>)

\* the movies that credit both the start and the target person
CommonMovies ==
    {m \in DOMAIN movie_to_people :
        {start_person, target_person} \subseteq Range(movie_to_people[m])}

\* C11: when start and target are co-credited on exactly one movie M, the call
\* returns exactly the one path [start, M, target], for every limit >= 1.
C11_SingleDirectPath ==
    (pc = "done" /\ limit >= 1 /\ start_person # target_person
        /\ Cardinality(CommonMovies) = 1) =>
        \E m \in CommonMovies :
            solutions = << << start_node, <<"movie", m>>, goal_node >> >>

\* the direct path came back alone under a larger limit, from a start person
\* with a second movie, so that the search had more to look at
C11_Witness ==
    /\ pc = "done" /\ limit >= 2 /\ start_person # target_person
    /\ Cardinality(CommonMovies) = 1 /\ Len(solutions) = 1
    /\ Len(person_to_movies[start_person]) >= 2
    /\ ~ScenarioGraph

Edges ==
    {<< p, m >> \in PersonIds \X MovieIds :
        p \in DOMAIN person_to_movies /\ m \in Range(person_to_movies[p])}

\* the movie_people rows of the database file that have both ids and a label
\* the query selects
Labelled == {r \in db.movie_people : r \in LabelledRows}

\* the same rows with one more copy of a row put at position j
InsertAt(seq, j, x) == SubSeq(seq, 1, j - 1) \o << x >> \o SubSeq(seq, j, Len(seq))

\* C12: building from any other ordering of the same rows gives adjacency
\* mappings on which find_shortest_paths returns the same paths in the same
\* order, for every start, target and limit.
C12_RowOrderIndependent ==
    main_pc = "loaded" =>
        \A reordered \in Orderings(Range(rows)) :
            LET again == Built(reordered) IN
            \A s \in PersonIds, t \in PersonIds, lim \in Limits :
                find_shortest_paths(s, t, again.person_to_movies, again.movie_to_people, lim)
                    = find_shortest_paths(s, t, person_to_movies, movie_to_people, lim)

\* C13: in a loaded snapshot movie m is in person_to_movies[p] exactly when
\* person p is in movie_to_people[m].
C13_Bidirectional ==
    main_pc = "loaded" =>
        \A p \in PersonIds, m \in MovieIds :
            (p \in DOMAIN person_to_movies /\ m \in Range(person_to_movies[p]))
                <=> (m \in DOMAIN movie_to_people /\ p \in Range(movie_to_people[m]))

C13_Witness ==
    /\ main_pc = "loaded"
    /\ Cardinality(Edges) = 3
    /\ \E m \in DOMAIN movie_to_people : Len(movie_to_people[m]) = 2
    /\ \E m \in DOMAIN movie_to_people : Len(movie_to_people[m]) = 1

\* C14: one more copy of a fetched row, wherever it comes in the input,
\* leaves all five results of the build as they are.
C14_DuplicateRowsIdempotent ==
    main_pc = "loaded" =>
        \A i \in 1..Len(rows), j \in 1..(Len(rows) + 1) :
            LET again == Built(InsertAt(rows, j, rows[i])) IN
            /\ ~again.raised
            /\ again.person_details = person_details
            /\ again.movie_details = movie_details
            /\ again.person_to_movies = person_to_movies
            /\ again.movie_to_people = movie_to_people
            /\ again.edge_roles = edge_roles

\* C15: when the database holds an association row without a person id or
\* without a movie id, the build raises nothing, no node, edge or metadata
\* entry comes from that row, and every row with both ids and a selected
\* label is aggregated.
C15_MissingIdSkipped ==
    (main_pc # "start" /\ \E r \in db.movie_people : r.person_id = None \/ r.movie_id = None) =>
        /\ main_pc = "loaded"
        /\ Edges = {<< r.person_id, r.movie_id >> : r \in Labelled}
        /\ DOMAIN person_to_movies = {r.person_id : r \in Labelled}
        /\ DOMAIN movie_to_people = {r.movie_id : r \in Labelled}
        /\ DOMAIN person_details = {r.person_id : r \in Labelled}
        /\ DOMAIN movie_details = {r.movie_id : r \in Labelled}
        /\ DOMAIN edge_roles = {<< r.person_id, r.movie_id >> : r \in Labelled}
        /\ \A e \in DOMAIN edge_roles :
               Range(edge_roles[e]) = {r.role : r \in {q \in Labelled :
                                          << q.person_id, q.movie_id >> = e}}

C15_Witness ==
    /\ main_pc = "loaded"
    /\ \E r \in db.movie_people : r.person_id = None
    /\ \E r \in db.movie_people : r.movie_id = None
    /\ Cardinality(Edges) = 2

\* C16: every edge of a loaded snapshot has an edge_roles entry that is not
\* empty, and every key of edge_roles is an edge.
C16_EdgesCarryRoles ==
    main_pc = "loaded" =>
        /\ \A e \in Edges : e \in DOMAIN edge_roles /\ edge_roles[e] # <<>>
        /\ \A e \in DOMAIN edge_roles : e \in Edges

C16_Witness ==
    /\ main_pc = "loaded"
    /\ \E r \in db.movie_people : r.role = Null
    /\ \E r \in db.movie_people : r.role = "Writer"
    /\ \E e \in Edges : Len(edge_roles[e]) = 2

\* C17: a person's roles are the labels of all of that person's rows, the
\* union of edge_roles[(p, m)] over the person's movies.
C17_RolesAcrossMovies ==
    main_pc = "loaded" =>
        \A p \in DOMAIN person_details :
            /\ Range(person_details[p].roles)
                   = UNION {Range(edge_roles[<< p, m >>]) : m \in Range(person_to_movies[p])}
            /\ Range(person_details[p].roles)
                   = {rows[i].role : i \in {k \in 1..Len(rows) : rows[k].person_id = p}}

C17_Witness ==
    /\ main_pc = "loaded"
    /\ \E p \in DOMAIN person_details :
         /\ person_details[p].roles = << "Actor", "Director" >>
         /\ Len(person_to_movies[p]) = 2
         /\ \A m \in Range(person_to_movies[p]) : Len(edge_roles[<< p, m >>]) = 1

\* ------------------------------------------------ claims on concurrent calls
RECURSIVE OnSoloRun(_, _)
\* g is a state that the call of f's arguments goes through when it runs
\* alone on the snapshot, from f on
OnSoloRun(f, g) ==
    IF f = g THEN TRUE
    ELSE IF f.pc \in {"done", "raised"} \/ f.steps >= MaxSteps THEN FALSE
    ELSE OnSoloRun(FrameStep(f, person_to_movies, movie_to_people), g)

\* C19: with the steps of two calls interleaved in any order, the locals of
\* each call go through the states of that call run alone, so each call
\* returns what it returns alone.
C19_ConcurrentAsAlone ==
    /\ OnSoloRun(NewFrame(start_person, target_person, limit), frame)
    /\ OnSoloRun(NewFrame(other.start_person, other.target_person, other.limit), other)
    /\ pc = "done" =>
           solutions = find_shortest_paths(start_person, target_person,
                                           person_to_movies, movie_to_people, limit)
    /\ other.pc = "done" =>
           other.solutions = find_shortest_paths(other.start_person, other.target_person,
                                                 person_to_movies, movie_to_people,
                                                 other.limit)

C19_Witness ==
    /\ pc = "done" /\ other.pc = "done"
    /\ Len(solutions) = 2 /\ Len(other.solutions) = 1
    /\ << start_person, target_person >> # << other.start_person, other.target_person >>
    /\ other.steps >= 3 /\ steps >= 3

\* ------------------------------------------------ claims on the query session
\* the movies of the path that main() renders next
NextPathMovies ==
    IF main_pc = "render" /\ tab < Len(solutions)
    THEN Range(MovieNodes(solutions[tab + 1])) ELSE {}

\* C20 (amended): once load_graph_data has returned, no step of the session
\* changes person_details or the keys of movie_details, and a movie_details
\* entry changes only while render_path renders a path through its movie and
\* only in its "omdb_poster" field: title, year and imdb_id stay as loaded.
C20_OnlyPosterFieldChanges ==
    [][ main_pc # "start" =>
          /\ person_details' = person_details
          /\ DOMAIN movie_details' = DOMAIN movie_details
          /\ \A m \in DOMAIN movie_details :
               /\ movie_details'[m] # movie_details[m] => m \in NextPathMovies
               /\ DOMAIN movie_details'[m] \in
                      {DOMAIN movie_details[m], DOMAIN movie_details[m] \cup {"omdb_poster"}}
               /\ \A field \in DOMAIN movie_details[m] \ {"omdb_poster"} :
                      movie_details'[m][field] = movie_details[m][field] ]_vars

C20_Witness ==
    /\ main_pc = "end"
    /\ tab = 2
    /\ \E m \in DOMAIN movie_details :
         /\ "omdb_poster" \in DOMAIN movie_details[m]
         /\ movie_details[m].omdb_poster = PosterUrl
    /\ \E m \in DOMAIN movie_details :
         /\ "omdb_poster" \in DOMAIN movie_details[m]
         /\ movie_details[m].omdb_poster = Null

\* C20 as stated: once load_graph_data has returned, no step of the session
\* changes person_details or movie_details.
C20_MetadataImmutable ==
    [][ main_pc # "start" =>
          /\ person_details' = person_details
          /\ movie_details' = movie_details ]_vars

\* ------------------------------------------------ claims on the renderers
\* the path the last render_path call was given
RenderedPath == solutions[tab]

\* the name the metadata holds for the person at a position of the path
NameAt(path, i) == person_details[path[i][2]].name

\* C21: for the rendered path of n nodes, describe_connection returns
\* (n - 1) / 2 steps, the degrees that render_path shows; step k names the
\* person at 0-based index 2(k-1), the movie after it and the person after
\* that, and each step starts with the person the step before ended with.
C21_OneStepPerTriple ==
    (tab >= 1 /\ Len(RenderedPath) >= 3) =>
        LET path == RenderedPath
            chain == page.chain
        IN  /\ 2 * Len(chain) = Len(path) - 1
            /\ Len(chain) = page.degrees
            /\ \A k \in 1..Len(chain) :
                 /\ path[2 * k - 1][1] = "person" /\ path[2 * k][1] = "movie"
                 /\ path[2 * k + 1][1] = "person"
                 /\ chain[k].person_name = NameAt(path, 2 * k - 1)
                 /\ chain[k].movie_label = format_movie(path[2 * k][2], movie_details)
                 /\ chain[k].partner_name = NameAt(path, 2 * k + 1)
            /\ \A k \in 1..(Len(chain) - 1) : chain[k].partner_name = chain[k + 1].person_name

C21_Witness ==
    /\ tab = 2
    /\ Len(RenderedPath) = 5
    /\ Len(page.chain) = 2
    /\ page.chain[1].person_name # page.chain[2].partner_name

\* C22: in every step of the rendered chain each of the two people carries
\* the edge_roles entry of that person and the step's movie, carries
\* ("Contributor",) exactly when edge_roles has no entry for the pair, and
\* never carries an empty label.
C22_RolesOrContributor ==
    tab >= 1 =>
        \A k \in 1..Len(page.chain) :
            LET movie_id == RenderedPath[2 * k][2]
                left == << RenderedPath[2 * k - 1][2], movie_id >>
                right == << RenderedPath[2 * k + 1][2], movie_id >>
                step == page.chain[k]
            IN  /\ left \in DOMAIN edge_roles => step.left_roles = edge_roles[left]
                /\ right \in DOMAIN edge_roles => step.right_roles = edge_roles[right]
                /\ step.left_roles = << "Contributor" >> <=> left \notin DOMAIN edge_roles
                /\ step.right_roles = << "Contributor" >> <=> right \notin DOMAIN edge_roles
                /\ step.left_roles # <<>> /\ step.right_roles # <<>>

C22_Witness ==
    /\ tab >= 1
    /\ \E k \in 1..Len(page.chain) :
         /\ page.chain[k].left_roles = << "Contributor" >>
         /\ page.chain[k].right_roles = << "Actor", "Director" >>

\* C23: the diagram of the rendered path of n nodes has n - 1 edges, the
\* i-th joining the i-th and the (i+1)-th node of the path, and declares the
\* nodes of the path and no other.
C23_EdgesAlongPath ==
    tab >= 1 =>
        LET path == RenderedPath
            dot == page.dot
        IN  /\ Len(dot.edges) = Len(path) - 1
            /\ \A i \in 1..Len(dot.edges) :
                   dot.edges[i] = << node_name(path[i]), node_name(path[i + 1]) >>
            /\ Len(dot.nodes) = Len(path)
            /\ \A i \in 1..Len(dot.nodes) : dot.nodes[i].name = node_name(path[i])
            /\ \A i \in 1..Len(dot.edges) :
                   \A end \in {1, 2} :
                       \E j \in 1..Len(dot.nodes) : dot.nodes[j].name = dot.edges[i][end]

C23_Witness ==
    /\ tab >= 1
    /\ Len(page.dot.nodes) = 5
    /\ Len(page.dot.edges) = 4
    /\ page.dot.edges[4][2] = << "p", target_person >>

\* ------------------------------------------------ claims on the bookkeeping
\* the entry at the front of the queue, the one an iteration dequeues
Front == Head(queue)

\* a step of the call that expands the dequeued node
Expansion == pc = "loop" /\ pc' = "loop" /\ steps' = steps + 1 /\ solutions' = solutions

\* the neighbours of the dequeued node, in tuple order
FrontNeighbours == Neighbours(Front.node).value

\* recorded in visited_depth at a depth strictly less than depth
RecordedShallower(n, depth) ==
    n[2] \in DOMAIN visited_depth[n[1]] /\ visited_depth[n[1]][n[2]] < depth

\* C24: an expansion appends to the queue, in tuple order and each with the
\* parent path extended, exactly the neighbours that visited_depth does not
\* record at a depth strictly less than the depth they are reached at now; a
\* neighbour recorded at the same depth is appended again.
C24_SkippedIffShallower ==
    [][ Expansion =>
          LET depth == Len(Front.path)
              Reached(n) == ~RecordedShallower(n, depth)
              kept == SelectSeq(FrontNeighbours, Reached)
          IN  queue' = Tail(queue) \o
                         [i \in 1..Len(kept) |->
                             [node |-> kept[i], path |-> Append(Front.path, kept[i])]] ]_vars

C24_Witness ==
    /\ pc = "loop"
    /\ \E i, j \in 1..Len(queue) :
         /\ i < j
         /\ queue[i].node = queue[j].node
         /\ queue[i].path # queue[j].path
         /\ Len(queue[i].path) = Len(queue[j].path)

\* a step of the call that enters an iteration of the loop
Iteration == pc = "loop" /\ steps' = steps + 1

\* C25: once shortest_length is known, an iteration that dequeues a longer
\* path ends the loop without expanding or recording it, so every entry
\* that is expanded or recorded is no longer than shortest_length; the
\* iteration that brings the solutions to limit ends the loop as well, and
\* after the loop has ended the solutions stay as they are.
C25_NothingPastShortest ==
    [][ /\ (Iteration /\ PastShortest(Front.path)) =>
               /\ pc' = "done"
               /\ solutions' = solutions
               /\ visited_depth' = visited_depth
               /\ queue' = Tail(queue)
        /\ (Iteration /\ (solutions' # solutions \/ Len(queue') > Len(queue) - 1)) =>
               (shortest_length = None \/ Len(Front.path) <= shortest_length)
        /\ (Iteration /\ solutions' # solutions /\ Len(solutions') >= limit) => pc' = "done"
        /\ pc = "done" => (pc' = "done" /\ solutions' = solutions) ]_vars

\* the loop has ended below the limit although an entry longer than the
\* shortest path had been queued (a movie recorded at depth shortest_length)
C25_Witness ==
    /\ pc = "done"
    /\ solutions # <<>>
    /\ Len(solutions) < limit
    /\ \E m \in DOMAIN visited_depth.movie : visited_depth.movie[m] = shortest_length

\* ------------------------------------------------ claims on the result list
\* the position of node n in the adjacency tuple of node parent
PositionAfter(parent, n) ==
    CHOOSE i \in 1..Len(Neighbours(parent).value) : Neighbours(parent).value[i] = n

\* first index at which two paths from the same start differ
FirstDifference(P, Q) == CHOOSE k \in 1..Len(P) : P[k] # Q[k] /\ \A i \in 1..(k - 1) : P[i] = Q[i]

\* P comes before Q in the lexicographic order of adjacency positions
LexBefore(P, Q) ==
    /\ P # Q
    /\ LET k == FirstDifference(P, Q)
       IN  PositionAfter(P[k - 1], P[k]) < PositionAfter(Q[k - 1], Q[k])

\* C26: the returned paths come in the order in which their goal entries
\* were dequeued, which is the lexicographic order of adjacency positions,
\* and every shortest path that is not returned comes after all returned
\* ones in that order: the result is fixed by start, target, limit and the
\* ordered adjacency tuples.
C26_DiscoveryOrder ==
    pc = "done" =>
        /\ \A i, j \in 1..Len(solutions) : i < j => LexBefore(solutions[i], solutions[j])
        /\ \A Q \in ShortestPaths \ Range(solutions) :
               \A i \in 1..Len(solutions) : LexBefore(solutions[i], Q)
        /\ solutions = find_shortest_paths(start_person, target_person,
                                           person_to_movies, movie_to_people, limit)

C26_Witness ==
    /\ pc = "done"
    /\ Len(solutions) = 2
    /\ solutions[1][2] # solutions[2][2]
    /\ PositionAfter(start_node, solutions[1][2]) = 1
    /\ PositionAfter(start_node, solutions[2][2]) = 2

\* the smaller of two numbers
Min(a, b) == IF a <= b THEN a ELSE b

\* C27: for start # target and limit >= 1 the returned paths are pairwise
\* distinct shortest paths and there are min(limit, N) of them, N the number
\* of shortest paths from start to target: at least one when the target is
\* reachable, all of them when limit >= N.
C27_MinLimitShortest ==
    (pc = "done" /\ start_person # target_person /\ limit >= 1) =>
        /\ \A i, j \in 1..Len(solutions) : i # j => solutions[i] # solutions[j]
        /\ Range(solutions) \subseteq ShortestPaths
        /\ Len(solutions) = Min(limit, Cardinality(ShortestPaths))
        /\ RefDistance # Unreachable => solutions # <<>>
        /\ limit >= Cardinality(ShortestPaths) => Range(solutions) = ShortestPaths

C27_Witness ==
    /\ pc = "done"
    /\ limit = DefaultLimit
    /\ Cardinality(ShortestPaths) = 2
    /\ Len(solutions) = 2
    /\ Len(solutions[1]) = 5

\* a path read from its last node to its first
Reversed(path) == [i \in 1..Len(path) |-> path[Len(path) + 1 - i]]

\* what the call with start and target exchanged returns
Backward ==
    find_shortest_paths(target_person, start_person, person_to_movies, movie_to_people, limit)

\* C28: the search from target to start returns no path exactly when the
\* search from start to target returns none, its paths have the same length,
\* and when limit is at least the number of shortest paths its paths are the
\* reversals of the paths from start to target.
C28_Symmetric ==
    pc = "done" =>
        /\ solutions = <<>> <=> Backward = <<>>
        /\ solutions # <<>> => Len(Backward[1]) = Len(solutions[1])
        /\ limit >= Cardinality(ShortestPaths) =>
               Range(Backward) = {Reversed(path) : path \in Range(solutions)}

C28_Witness ==
    /\ pc = "done"
    /\ Len(solutions) = 2
    /\ Len(Backward) = 2
    /\ Len(solutions[1]) = 5
    /\ Backward[1] = Reversed(solutions[1])
    /\ Backward[2] = Reversed(solutions[2])

RECURSIVE LayersTo(_, _, _, _)
\* layer-by-layer breadth-first distance (in edges) to node n
LayersTo(n, frontier, seen, d) ==
    IF n \in frontier THEN d
    ELSE LET next == (UNION {Adjacent(x) : x \in frontier}) \ seen
         IN  IF next = {} THEN Unreachable
             ELSE LayersTo(n, next, seen \cup next, d + 1)

\* the number of edges of a shortest walk from the start person to node n
DistanceTo(n) == LayersTo(n, {start_node}, {start_node}, 0)

\* the nodes that visited_depth holds a depth for
Recorded ==
    UNION {{<< kind, id >> : id \in DOMAIN visited_depth[kind]} : kind \in {"person", "movie"}}

\* the depth visited_depth holds for a recorded node
DepthOf(n) == visited_depth[n[1]][n[2]]

\* C29: once line 191 has created visited_depth (a call for two different
\* people that has reached the loop) the start is recorded at depth 0 and every
\* recorded depth is the breadth-first distance of its node from the start;
\* the node of every queued entry is recorded at len(path) - 1; and a
\* neighbour of the entry at the front that is recorded is recorded at no
\* more than the depth it is reached at now, so that line 226 never puts a
\* different depth in the place of a recorded one.
C29_DepthIsDistance ==
    (pc \in {"loop", "done"} /\ start_person # target_person) =>
        /\ start_node \in Recorded /\ DepthOf(start_node) = 0
        /\ \A n \in Recorded : DepthOf(n) = DistanceTo(n)
        /\ \A i \in 1..Len(queue) :
               /\ queue[i].node \in Recorded
               /\ DepthOf(queue[i].node) = Len(queue[i].path) - 1
               /\ queue[i].node = queue[i].path[Len(queue[i].path)]
        /\ queue # <<>> =>
               \A k \in 1..Len(FrontNeighbours) :
                   FrontNeighbours[k] \in Recorded =>
                       DepthOf(FrontNeighbours[k]) <= Len(Front.path)

C29_Witness ==
    /\ pc = "loop"
    /\ queue # <<>>
    /\ Len(Front.path) = 4
    /\ \E k \in 1..Len(FrontNeighbours) :
         FrontNeighbours[k] \in Recorded /\ DepthOf(FrontNeighbours[k]) = 4

RECURSIVE ExpandByDepth(_, _, _, _, _)
\* the loop of lines 218-227 without the test of lines 219-220
ExpandByDepth(neighbours, i, path, vd, q) ==
    IF i > Len(neighbours) THEN [visited_depth |-> vd, queue |-> q]
    ELSE IF DepthSkip(vd[neighbours[i][1]], neighbours[i][2], Len(path))
         THEN ExpandByDepth(neighbours, i + 1, path, vd, q)
         ELSE ExpandByDepth(neighbours, i + 1, path,
                            Record(vd, neighbours[i], Len(path)),
                            Enqueue(q, neighbours[i], path))

\* C30: a neighbour of a queued entry's node that is already in the entry's
\* path is recorded in visited_depth at a depth strictly less than the depth
\* it would be reached at, and the expansion of the entry at the front
\* leaves the same queue and the same visited_depth with and without the
\* `neighbour in path` test.
C30_CycleCheckSubsumed ==
    (pc = "loop" /\ queue # <<>>) =>
        /\ \A i \in 1..Len(queue) :
               LET path == queue[i].path
                   neighbours == Neighbours(queue[i].node).value
               IN  \A k \in 1..Len(neighbours) :
                       InPath(neighbours[k], path) =>
                           /\ neighbours[k] \in Recorded
                           /\ DepthOf(neighbours[k]) < Len(path)
        /\ Expand(FrontNeighbours, 1, Front.path, visited_depth, Tail(queue))
               = ExpandByDepth(FrontNeighbours, 1, Front.path, visited_depth, Tail(queue))

C30_Witness ==
    /\ pc = "loop"
    /\ queue # <<>>
    /\ Len(Front.path) = 3
    /\ \E k \in 1..Len(FrontNeighbours) : InPath(FrontNeighbours[k], Front.path)
    /\ \E k \in 1..Len(FrontNeighbours) : ~Skipped(FrontNeighbours[k], Front.path, visited_depth)
====
